---- MODULE Spec2Model ----
(***************************************************************************)
(* A model of the plexo-sdk label resource (src/src/labels/operations.rs)  *)
(* and of the cognition operations (src/src/cognition/operations.rs).      *)
(*                                                                         *)
(* Text is modelled as a sequence of tokens: every SQL keyword, column,    *)
(* operator and parenthesis is one token, and every character of a         *)
(* caller-supplied literal is one token, so a quote inside a literal is    *)
(* seen by the store exactly like a quote written by format!.              *)
(* Blanks between tokens are not modelled.                                 *)
(***************************************************************************)
EXTENDS Integers, Sequences, FiniteSets, TLC

VARIABLES
    filter,     \* the GetLabelsWhere tree a caller is building
    query,      \* the statement get_labels assembled (None before the call)
    labels,     \* the labels table: id -> row
    next_id,    \* the id the store gives the next inserted row
    ret,        \* the last label operation: its name, arguments and result
    tasks,      \* the ids of the persisted tasks
    pc,         \* where the cognition request in flight stands
    op,         \* the cognition operation in flight
    arg,        \* its input.task_id (subdivide_task)
    task,       \* the parent task it fetched
    response,   \* the completion service's raw text
    invoked,    \* calls of the completion service made by the request
    result      \* what the request returned

filterVars == <<filter>>
labelVars == <<labels, next_id, ret>>
cogVars == <<tasks, pc, op, arg, task, response, invoked, result>>
vars == <<filter, query, labels, next_id, ret,
          tasks, pc, op, arg, task, response, invoked, result>>

-----------------------------------------------------------------------------
(* Option<T> *)

None == <<>>
Some(x) == <<x>>
IsSome(o) == Len(o) = 1
Unwrap(o) == o[1]

-----------------------------------------------------------------------------
(* Bounds of the filter trees that are explored *)

MaxNodes == 4          \* nodes of a tree, plus its present-but-empty groups
MaxConstraints == 4    \* field constraints of a tree
MaxDepth == 2          \* nesting of _and/_or
MaxQuoted == 1         \* literals of a tree that hold a quote

\* literal values a caller passes: a plain one, and one with a quote and a
\* statement terminator
PlainLit == <<"a">>
QuoteLit == <<"x", "'", ";">>
Lits == {PlainLit, QuoteLit}

Columns == {"name", "description", "color"}

-----------------------------------------------------------------------------
(* GetLabelsWhere and its compilation *)

\* GetLabelsWhereBuilder::default().build(): every field absent
EmptyWhere ==
    [name |-> None, description |-> None, color |-> None,
     _and |-> None, _or |-> None]

\* format!("name = '{}'", name): the literal's characters go in as they are
format_eq(col, lit) == <<col, "=", "'">> \o lit \o <<"'">>

\* Vec<String>::join(sep)
RECURSIVE join(_, _)
join(clauses, sep) ==
    IF clauses = <<>> THEN <<>>
    ELSE IF Len(clauses) = 1 THEN clauses[1]
    ELSE clauses[1] \o <<sep>> \o join(Tail(clauses), sep)

\* the clauses pushed for the node's own fields, in the code's order
field_clauses(w) ==
    (IF IsSome(w.name) THEN <<format_eq("name", Unwrap(w.name))>> ELSE <<>>)
    \o (IF IsSome(w.description)
        THEN <<format_eq("description", Unwrap(w.description))>> ELSE <<>>)
    \o (IF IsSome(w.color) THEN <<format_eq("color", Unwrap(w.color))>> ELSE <<>>)

RECURSIVE compile_sql(_)

\* one clause per child, pushed whatever the child compiled to
child_clauses(group) ==
    IF IsSome(group)
    THEN [i \in 1..Len(Unwrap(group)) |-> compile_sql(Unwrap(group)[i])]
    ELSE <<>>

and_clauses(w) == field_clauses(w) \o child_clauses(w._and)
or_clauses(w) == child_clauses(w._or)

compile_sql(w) ==
    LET ands == and_clauses(w)
        ors == or_clauses(w)
        and_part == IF ands # <<>>
                    THEN <<"(">> \o join(ands, "AND") \o <<")">>
                    ELSE <<>>
    IN  IF ors # <<>>
        THEN and_part
             \o (IF and_part # <<>> THEN <<"OR">> ELSE <<>>)
             \o <<"(">> \o join(ors, "OR") \o <<")">>
        ELSE and_part

-----------------------------------------------------------------------------
(* get_labels: the statement it assembles *)

DefaultLimit == 100
DefaultOffset == 0

\* GetLabelsInputBuilder::build(): an option never set takes its default
GetLabelsInputBuilder(f, sb, so, lim, off) ==
    [filter |-> f, sort_by |-> sb, sort_order |-> so,
     limit |-> IF IsSome(lim) THEN lim ELSE Some(DefaultLimit),
     offset |-> IF IsSome(off) THEN off ELSE Some(DefaultOffset)]

GetLabelsQuery(input) ==
    <<"SELECT", "*", "FROM", "labels">>
    \o (IF IsSome(input.filter)
        THEN <<"WHERE">> \o compile_sql(Unwrap(input.filter)) ELSE <<>>)
    \o (IF IsSome(input.sort_by)
        THEN <<"ORDER", "BY", Unwrap(input.sort_by)>> ELSE <<>>)
    \o (IF IsSome(input.sort_order) THEN <<Unwrap(input.sort_order)>> ELSE <<>>)
    \o (IF IsSome(input.limit)
        THEN <<"LIMIT", ToString(Unwrap(input.limit))>> ELSE <<>>)
    \o (IF IsSome(input.offset)
        THEN <<"OFFSET", ToString(Unwrap(input.offset))>> ELSE <<>>)

-----------------------------------------------------------------------------
(* How the store reads a statement *)

\* The statement with every string literal replaced by "?": its clauses,
\* operators and grouping. Inside a literal '' is an escaped quote; a literal
\* still open at the end of the text is "?unterminated".
RECURSIVE Lex(_, _, _)
Lex(s, i, instr) ==
    IF i > Len(s) THEN (IF instr THEN <<"?unterminated">> ELSE <<>>)
    ELSE IF instr
    THEN IF s[i] = "'"
         THEN IF i < Len(s) /\ s[i + 1] = "'"
              THEN Lex(s, i + 2, TRUE)
              ELSE <<"?">> \o Lex(s, i + 1, FALSE)
         ELSE Lex(s, i + 1, TRUE)
    ELSE IF s[i] = "'" THEN Lex(s, i + 1, TRUE)
    ELSE <<s[i]>> \o Lex(s, i + 1, FALSE)

Shape(s) == Lex(s, 1, FALSE)

\* index of the quote closing the literal that starts at i, 0 if none
RECURSIVE CloseQuote(_, _)
CloseQuote(s, i) ==
    IF i > Len(s) THEN 0
    ELSE IF s[i] = "'"
    THEN IF i < Len(s) /\ s[i + 1] = "'" THEN CloseQuote(s, i + 2) ELSE i
    ELSE CloseQuote(s, i + 1)

\* A predicate read with SQL's precedence: AND binds tighter than OR. One
\* frame per open parenthesis holds the value of the disjuncts read so far
\* (any) and of the conjunction being read (all). The result is [ok, v, i]:
\* whether a predicate was read, its value on the row, the index after it.
ParseFail == [ok |-> FALSE, v |-> FALSE, i |-> 0]
NewFrame == [any |-> FALSE, all |-> TRUE]
FrameValue(f) == f.any \/ f.all
Feed(frames, v) ==
    [frames EXCEPT ![Len(frames)] = [@ EXCEPT !.all = @ /\ v]]

RECURSIVE Scan(_, _, _, _, _)
Scan(s, i, row, frames, operand) ==
    IF i <= Len(s) /\ operand /\ s[i] = "("
    THEN Scan(s, i + 1, row, Append(frames, NewFrame), TRUE)
    ELSE IF i <= Len(s) /\ operand
    THEN IF s[i] \in Columns /\ i + 2 <= Len(s) /\ s[i + 1] = "="
            /\ s[i + 2] = "'" /\ CloseQuote(s, i + 3) # 0
         THEN LET j == CloseQuote(s, i + 3)
              IN  Scan(s, j + 1, row,
                       Feed(frames, row[s[i]] = Some(SubSeq(s, i + 3, j - 1))),
                       FALSE)
         ELSE ParseFail
    ELSE IF operand THEN ParseFail
    ELSE IF i <= Len(s) /\ s[i] = "AND"
    THEN Scan(s, i + 1, row, frames, TRUE)
    ELSE IF i <= Len(s) /\ s[i] = "OR"
    THEN Scan(s, i + 1, row,
              [frames EXCEPT ![Len(frames)] =
                  [any |-> FrameValue(@), all |-> TRUE]],
              TRUE)
    ELSE IF i <= Len(s) /\ s[i] = ")"
    THEN IF Len(frames) = 1 THEN ParseFail
         ELSE Scan(s, i + 1, row,
                   Feed(SubSeq(frames, 1, Len(frames) - 1),
                        FrameValue(frames[Len(frames)])),
                   FALSE)
    ELSE IF Len(frames) = 1
    THEN [ok |-> TRUE, v |-> FrameValue(frames[1]), i |-> i]
    ELSE ParseFail

ParseOr(s, i, row) == Scan(s, i, row, <<NewFrame>>, TRUE)

\* the fragment is a whole predicate
Parses(frag) ==
    LET r == ParseOr(frag, 1, [c \in Columns |-> None])
    IN  r.ok /\ r.i = Len(frag) + 1

\* the row satisfies the fragment
Matches(frag, row) ==
    LET r == ParseOr(frag, 1, row)
    IN  r.ok /\ r.i = Len(frag) + 1 /\ r.v

-----------------------------------------------------------------------------
(* The trees a caller can build *)

Group(w, g) == IF g = "_and" THEN w._and ELSE w._or
Kids(w, g) == IF IsSome(Group(w, g)) THEN Unwrap(Group(w, g)) ELSE <<>>

RECURSIVE Paths(_)
Paths(w) ==
    {<<>>} \cup UNION {
        UNION { { <<<<g, i>>>> \o p : p \in Paths(Kids(w, g)[i]) }
                : i \in 1..Len(Kids(w, g)) }
        : g \in {"_and", "_or"} }

RECURSIVE SubAt(_, _)
SubAt(w, p) ==
    IF p = <<>> THEN w ELSE SubAt(Kids(w, p[1][1])[p[1][2]], Tail(p))

RECURSIVE Replace(_, _, _)
Replace(w, p, n) ==
    IF p = <<>> THEN n
    ELSE LET g == p[1][1]
             i == p[1][2]
             kids == [Kids(w, g) EXCEPT ![i] = Replace(@, Tail(p), n)]
         IN  IF g = "_and" THEN [w EXCEPT !._and = Some(kids)]
             ELSE [w EXCEPT !._or = Some(kids)]

OwnConstraints(w) == Cardinality({c \in Columns : IsSome(w[c])})
OwnQuoted(w) ==
    Cardinality({c \in Columns : IsSome(w[c]) /\ Unwrap(w[c]) = QuoteLit})
OwnEmpties(w) ==
    Cardinality({g \in {"_and", "_or"} : Group(w, g) = Some(<<>>)})

\* the size of the trees in a list: their nodes, field constraints, literals
\* with a quote, and groups that are present but empty
RECURSIVE Measure(_)
Measure(list) ==
    IF list = <<>>
    THEN [nodes |-> 0, constraints |-> 0, quoted |-> 0, empties |-> 0]
    ELSE LET w == Head(list)
             m == Measure(Tail(list) \o Kids(w, "_and") \o Kids(w, "_or"))
         IN  [nodes |-> m.nodes + 1,
              constraints |-> m.constraints + OwnConstraints(w),
              quoted |-> m.quoted + OwnQuoted(w),
              empties |-> m.empties + OwnEmpties(w)]

Nodes(w) == Measure(<<w>>).nodes
Constraints(w) == Measure(<<w>>).constraints
Quoted(w) == Measure(<<w>>).quoted
Empties(w) == Measure(<<w>>).empties

\* where the bounds leave room: the nodes that may take one more field
\* constraint, the literals it may hold, the nodes that may take a child
FieldPaths(w) == IF Constraints(w) < MaxConstraints THEN Paths(w) ELSE {}
FieldLits(w) == IF Quoted(w) < MaxQuoted THEN Lits ELSE Lits \ {QuoteLit}
GroupPaths(w) == IF Nodes(w) + Empties(w) < MaxNodes THEN Paths(w) ELSE {}

\* the builder's setters, applied to the node at path p
SetField(p, c, l) ==
    /\ query = None
    /\ ~IsSome(SubAt(filter, p)[c])
    /\ filter' = Replace(filter, p, [SubAt(filter, p) EXCEPT ![c] = Some(l)])
    /\ UNCHANGED <<query, labelVars, cogVars>>

SetName(p, l) == SetField(p, "name", l)
SetDescription(p, l) == SetField(p, "description", l)
SetColor(p, l) == SetField(p, "color", l)

\* _and(vec![]) / _or(vec![]): the group present but empty
SetGroupEmpty(p, g) ==
    /\ query = None
    /\ Group(SubAt(filter, p), g) = None
    /\ filter' = Replace(filter, p,
           IF g = "_and" THEN [SubAt(filter, p) EXCEPT !._and = Some(<<>>)]
           ELSE [SubAt(filter, p) EXCEPT !._or = Some(<<>>)])
    /\ UNCHANGED <<query, labelVars, cogVars>>

\* one more child in the group
PushChild(p, g) ==
    /\ query = None
    /\ Len(p) < MaxDepth
    /\ Group(SubAt(filter, p), g) # Some(<<>>)
    /\ LET kids == Append(Kids(SubAt(filter, p), g), EmptyWhere)
       IN  filter' = Replace(filter, p,
               IF g = "_and" THEN [SubAt(filter, p) EXCEPT !._and = Some(kids)]
               ELSE [SubAt(filter, p) EXCEPT !._or = Some(kids)])
    /\ UNCHANGED <<query, labelVars, cogVars>>

SetAnd(p) == PushChild(p, "_and") \/ SetGroupEmpty(p, "_and")
SetOr(p) == PushChild(p, "_or") \/ SetGroupEmpty(p, "_or")

\* get_labels up to the statement it hands to the store
AssembleQuery ==
    /\ query = None
    /\ query' = Some(GetLabelsQuery(
           GetLabelsInputBuilder(Some(filter), None, None, None, None)))
    /\ UNCHANGED <<filter, labelVars, cogVars>>

-----------------------------------------------------------------------------
(* The labels table and the CRUD operations *)

MaxCreates == 2        \* create_label calls in a run

Names == {<<"a">>, <<"b">>}
Texts == {None, Some(<<"a">>)}
LabelIds == 1..MaxCreates

Ok(x) == [ok |-> TRUE, val |-> x]
Err(e) == [ok |-> FALSE, val |-> e]

NoCall == [op |-> "none", id |-> 0, input |-> None, res |-> Ok(None)]

\* fetch_one changed to hand back a default when no row matches
fetch_one_or_default(rows) ==
    IF rows = <<>> THEN Ok(None) ELSE Ok(rows[1])

\* fetch_one: the statement's only row, or RowNotFound
fetch_one(rows) ==
    IF rows = <<>> THEN Err("RowNotFound") ELSE Ok(rows[1])

\* the rows WHERE id = $1 selects
RowsById(id) == IF id \in DOMAIN labels THEN <<labels[id]>> ELSE <<>>

\* SET column = $n: the argument even when it is NULL
COALESCE_overwrite(x, column) == x

\* COALESCE($n, column): the argument unless it is NULL
COALESCE(x, column) == IF IsSome(x) THEN x ELSE column

Without(table, id) == [i \in DOMAIN table \ {id} |-> table[i]]

create_label(input) ==
    /\ next_id <= MaxCreates
    /\ LET row == [id |-> next_id, name |-> Some(input.name),
                   description |-> input.description, color |-> input.color]
       IN  /\ labels' = (next_id :> row) @@ labels
           /\ ret' = [op |-> "create_label", id |-> next_id,
                      input |-> Some(input), res |-> fetch_one(<<row>>)]
    /\ next_id' = next_id + 1
    /\ UNCHANGED <<filter, query, cogVars>>

get_label(id) ==
    /\ ret' = [op |-> "get_label", id |-> id, input |-> None,
               res |-> fetch_one(RowsById(id))]
    /\ UNCHANGED <<labels, next_id, filter, query, cogVars>>

\* the row UPDATE ... SET col = COALESCE($n, col) writes for row r
Updated(r, input) ==
    [r EXCEPT !.name = COALESCE(input.name, @),
              !.description = COALESCE(input.description, @),
              !.color = COALESCE(input.color, @)]

update_label(id, input) ==
    /\ labels' = [i \in DOMAIN labels |->
                    IF i = id THEN Updated(labels[i], input) ELSE labels[i]]
    /\ ret' = [op |-> "update_label", id |-> id, input |-> Some(input),
               res |-> fetch_one(IF id \in DOMAIN labels
                                 THEN <<Updated(labels[id], input)>> ELSE <<>>)]
    /\ UNCHANGED <<next_id, filter, query, cogVars>>

delete_label(id) ==
    /\ labels' = Without(labels, id)
    /\ ret' = [op |-> "delete_label", id |-> id, input |-> None,
               res |-> fetch_one(RowsById(id))]
    /\ UNCHANGED <<next_id, filter, query, cogVars>>

\* the store running the statement get_labels assembled
NullRow == [c \in Columns |-> None]

NumOf(tok) == CHOOSE n \in 0..DefaultLimit : ToString(n) = tok

Min(a, b) == IF a < b THEN a ELSE b

RECURSIVE SelectRows(_, _, _)
SelectRows(s, at, id) ==
    IF id >= next_id THEN <<>>
    ELSE (IF id \in DOMAIN labels /\ (at = 0 \/ ParseOr(s, at, labels[id]).v)
          THEN <<labels[id]>> ELSE <<>>)
         \o SelectRows(s, at, id + 1)

Exec(s) ==
    LET hasWhere == Len(s) >= 5 /\ s[5] = "WHERE"
        p == IF hasWhere THEN ParseOr(s, 6, NullRow)
             ELSE [ok |-> TRUE, v |-> TRUE, i |-> 5]
        h == p.i
        hasOrder == h + 2 <= Len(s) /\ s[h] = "ORDER" /\ s[h + 1] = "BY"
                    /\ s[h + 2] = "id"
        i == IF hasOrder THEN h + 3 ELSE h
        hasLimit == i + 1 <= Len(s) /\ s[i] = "LIMIT"
        j == IF hasLimit THEN i + 2 ELSE i
        hasOffset == j + 1 <= Len(s) /\ s[j] = "OFFSET"
        k == IF hasOffset THEN j + 2 ELSE j
    IN  IF ~p.ok \/ k # Len(s) + 1 THEN Err("syntax")
        ELSE LET rows == SelectRows(s, IF hasWhere THEN 6 ELSE 0, 1)
                 off == IF hasOffset THEN NumOf(s[j + 1]) ELSE 0
                 lim == IF hasLimit THEN NumOf(s[i + 1]) ELSE Len(rows)
             IN  Ok(SubSeq(rows, off + 1, Min(Len(rows), off + lim)))

\* the filters, sort keys, limits and offsets callers pass in this model
Filters ==
    {None, Some(EmptyWhere), Some([EmptyWhere EXCEPT !.name = Some(PlainLit)])}
SortKeys == {None, Some("id")}
Limits == {None, Some(1)}
Offsets == {None}

\* a GetLabelsInput written as a struct literal: every field as given
GetLabelsInputLiteral(f, sb, so, lim, off) ==
    [filter |-> f, sort_by |-> sb, sort_order |-> so, limit |-> lim,
     offset |-> off]

\* ret.input of a get_labels call: what the caller gave, and the input built
get_labels(given, input) ==
    /\ query' = Some(GetLabelsQuery(input))
    /\ ret' = [op |-> "get_labels", id |-> 0,
               input |-> Some([given |-> given, built |-> input]),
               res |-> Exec(GetLabelsQuery(input))]
    /\ UNCHANGED <<labels, next_id, filter, cogVars>>

get_labels_built(f, sb, lim, off) ==
    get_labels([limit |-> lim, offset |-> off],
               GetLabelsInputBuilder(f, sb, None, lim, off))

get_labels_literal(f, sb, lim, off) ==
    get_labels([limit |-> lim, offset |-> off],
               GetLabelsInputLiteral(f, sb, None, lim, off))

CreateLabelInputs == [name : Names, description : Texts, color : Texts]
UpdateLabelInputs ==
    [name : {None} \cup {Some(n) : n \in Names}, description : Texts,
     color : Texts]

-----------------------------------------------------------------------------
(* The cognition operations *)

MaxPad == 3            \* characters around the document in a response

TaskIds == {1, 2}

\* The completion service's text: blanks, backticks, the language name of an
\* opening fence and at most one JSON document. A document is one token;
\* Json gives what it holds.
Blank == " "
Backtick == "backtick"
InfoString == "json"

ObjX ==
    [title |-> "x", description |-> "y", status |-> "Done",
     priority |-> "High", due_date |-> "2024-01-01T00:00:00Z"]
ObjZ ==
    [title |-> "z", description |-> "w", status |-> "ToDo",
     priority |-> "Low", due_date |-> "2024-02-02T00:00:00Z"]
ObjBadStatus == [ObjX EXCEPT !.status = "Finished"]
ObjNoTitle ==
    [description |-> "y", status |-> "Done", priority |-> "High",
     due_date |-> "2024-01-01T00:00:00Z"]

Documents ==
    {"{x}", "{z}", "{bad status}", "{no title}", "not json", "[{x},{z}]",
     "[{x},{no title}]"}

Json(doc) ==
    CASE doc = "{x}" -> [kind |-> "object", members |-> <<ObjX>>]
      [] doc = "{z}" -> [kind |-> "object", members |-> <<ObjZ>>]
      [] doc = "{bad status}" -> [kind |-> "object", members |-> <<ObjBadStatus>>]
      [] doc = "{no title}" -> [kind |-> "object", members |-> <<ObjNoTitle>>]
      [] doc = "[{x},{z}]" -> [kind |-> "array", members |-> <<ObjX, ObjZ>>]
      [] doc = "[{x},{no title}]" ->
             [kind |-> "array", members |-> <<ObjX, ObjNoTitle>>]
      [] OTHER -> [kind |-> "invalid", members |-> <<>>]

\* the values the prompt names for the two enums
TaskStatusValues == {"None", "Backlog", "ToDo", "InProgress", "Done", "Canceled"}
TaskPriorityValues == {"None", "Low", "Medium", "High", "Urgent"}

TaskSuggestionFields == {"title", "description", "status", "priority", "due_date"}

\* #[derive(Deserialize)] on TaskSuggestion: every field required
Conforms(obj) ==
    /\ TaskSuggestionFields \subseteq DOMAIN obj
    /\ obj.status \in TaskStatusValues
    /\ obj.priority \in TaskPriorityValues

RECURSIVE TrimStart(_, _)
TrimStart(s, c) ==
    IF s # <<>> /\ s[1] = c THEN TrimStart(Tail(s), c) ELSE s

RECURSIVE TrimEnd(_, _)
TrimEnd(s, c) ==
    IF s # <<>> /\ s[Len(s)] = c THEN TrimEnd(SubSeq(s, 1, Len(s) - 1), c) ELSE s

\* str::trim
trim(s) == TrimEnd(TrimStart(s, Blank), Blank)

\* the backticks left in place
trim_matches_skipped(s, c) == s

\* str::trim_matches(c)
trim_matches(s, c) == TrimEnd(TrimStart(s, c), c)

\* serde_json reads one document, blanks allowed around it
Document(text) ==
    LET body == trim(text)
    IN  IF Len(body) = 1 /\ body[1] \in Documents THEN Json(body[1])
        ELSE [kind |-> "invalid", members |-> <<>>]

\* from_str(..).unwrap_or_default(): a default record for what does not parse
from_str_TaskSuggestion_or_default(text) ==
    LET d == Document(text)
    IN  IF d.kind = "object" /\ Conforms(d.members[1])
        THEN Ok(d.members[1])
        ELSE Ok([title |-> "", description |-> "", status |-> "None",
                 priority |-> "None", due_date |-> ""])

\* serde_json::from_str::<TaskSuggestion>(text)?
from_str_TaskSuggestion(text) ==
    LET d == Document(text)
    IN  IF d.kind = "object" /\ Conforms(d.members[1])
        THEN Ok(d.members[1]) ELSE Err("serde_json")

\* serde_json::from_str::<Vec<TaskSuggestion>>(text)?
from_str_Vec_TaskSuggestion(text) ==
    LET d == Document(text)
    IN  IF d.kind = "array" /\ \A i \in 1..Len(d.members) : Conforms(d.members[i])
        THEN Ok(d.members) ELSE Err("serde_json")

\* result.trim().trim_matches(backtick), then from_str
parse_response(o, text) ==
    LET stripped == trim_matches(trim(text), Backtick)
    IN  IF o = "get_suggestions" THEN from_str_TaskSuggestion(stripped)
        ELSE from_str_Vec_TaskSuggestion(stripped)

\* self.get_task(id): the task, or NotFound
get_task(id) == IF id \in tasks THEN Ok(id) ELSE Err("NotFound")

\* get_task's error dropped: the request goes on without the task
after_get_task_ignored(r) == "BuildPrompt"

\* the ? on get_task's result: go on with the task, or return the error
after_get_task(r) == IF r.ok THEN "BuildPrompt" ELSE "Reject"

\* what may stand before the document (an opening fence may name a language)
\* and after it
Leads == UNION {[1..k -> {Blank, Backtick, InfoString}] : k \in 0..MaxPad}
Trails == UNION {[1..k -> {Blank, Backtick}] : k \in 0..MaxPad}
Responses ==
    {pre \o mid \o post :
        pre \in Leads, mid \in {<<>>} \cup {<<d>> : d \in Documents},
        post \in Trails}

get_suggestions ==
    /\ pc = "idle"
    /\ pc' = "GatherContext"
    /\ op' = "get_suggestions"
    /\ UNCHANGED <<tasks, arg, task, response, invoked, result,
                   filter, query, labelVars>>

subdivide_task(task_id) ==
    /\ pc = "idle"
    /\ pc' = "GatherContext"
    /\ op' = "subdivide_task"
    /\ arg' = task_id
    /\ UNCHANGED <<tasks, task, response, invoked, result,
                   filter, query, labelVars>>

\* acquire_tasks_fingerprints(10, project_id) reads the tasks and cannot
\* fail; get_task(input.task_id)? can
GatherContext ==
    /\ pc = "GatherContext"
    /\ IF op = "subdivide_task"
       THEN LET r == get_task(arg)
            IN  /\ pc' = after_get_task(r)
                /\ task' = IF r.ok THEN Some(r.val) ELSE None
                /\ result' = IF r.ok THEN result ELSE r
       ELSE /\ pc' = "BuildPrompt"
            /\ UNCHANGED <<task, result>>
    /\ UNCHANGED <<tasks, op, arg, response, invoked, filter, query, labelVars>>

\* system_message and user_message are built; no state changes
BuildPrompt ==
    /\ pc = "BuildPrompt"
    /\ pc' = "Invoke"
    /\ UNCHANGED <<tasks, op, arg, task, response, invoked, result,
                   filter, query, labelVars>>

\* self.chat_completion(system_message, user_message).await: any text
Invoke ==
    /\ pc = "Invoke"
    /\ \E r \in Responses : response' = Some(r)
    /\ invoked' = invoked + 1
    /\ pc' = "ParseResponse"
    /\ UNCHANGED <<tasks, op, arg, task, result, filter, query, labelVars>>

ParseResponse ==
    /\ pc = "ParseResponse"
    /\ LET r == parse_response(op, Unwrap(response))
       IN  /\ result' = r
           /\ pc' = IF r.ok THEN "Accept" ELSE "Reject"
    /\ UNCHANGED <<tasks, op, arg, task, response, invoked,
                   filter, query, labelVars>>

\* the caller has the result; the request is over
Return ==
    /\ pc \in {"Accept", "Reject"}
    /\ pc' = "idle"
    /\ op' = "none"
    /\ arg' = 0
    /\ task' = None
    /\ response' = None
    /\ invoked' = 0
    /\ result' = Ok(None)
    /\ UNCHANGED <<tasks, filter, query, labelVars>>

\* other callers create and delete tasks while a request is in flight
create_task(id) ==
    /\ id \notin tasks
    /\ tasks' = tasks \cup {id}
    /\ UNCHANGED <<pc, op, arg, task, response, invoked, result,
                   filter, query, labelVars>>

delete_task(id) ==
    /\ id \in tasks
    /\ tasks' = tasks \ {id}
    /\ UNCHANGED <<pc, op, arg, task, response, invoked, result,
                   filter, query, labelVars>>

-----------------------------------------------------------------------------
(* Initial states and specifications *)

FilterIdle == filter = EmptyWhere
LabelsIdle == labels = <<>> /\ next_id = 1 /\ ret = NoCall
CogIdle ==
    /\ tasks = {}
    /\ pc = "idle"
    /\ op = "none"
    /\ arg = 0
    /\ task = None
    /\ response = None
    /\ invoked = 0
    /\ result = Ok(None)

InitFilter == FilterIdle /\ query = None /\ LabelsIdle /\ CogIdle

NextFilter ==
    \/ \E p \in FieldPaths(filter), l \in FieldLits(filter) : SetName(p, l)
    \/ \E p \in FieldPaths(filter), l \in FieldLits(filter) : SetDescription(p, l)
    \/ \E p \in FieldPaths(filter), l \in FieldLits(filter) : SetColor(p, l)
    \/ \E p \in GroupPaths(filter) : SetAnd(p)
    \/ \E p \in GroupPaths(filter) : SetOr(p)
    \/ AssembleQuery

SpecFilter == InitFilter /\ [][NextFilter]_vars

Init == FilterIdle /\ query = None /\ LabelsIdle /\ CogIdle

Next ==
    \/ \E input \in CreateLabelInputs : create_label(input)
    \/ \E id \in LabelIds : get_label(id)
    \/ \E id \in LabelIds, input \in UpdateLabelInputs : update_label(id, input)
    \/ \E id \in LabelIds : delete_label(id)

Spec == Init /\ [][Next]_vars

InitList == FilterIdle /\ query = None /\ LabelsIdle /\ CogIdle

NextList ==
    \/ \E input \in CreateLabelInputs : create_label(input)
    \/ \E id \in LabelIds : delete_label(id)
    \/ \E f \in Filters, sb \in SortKeys, lim \in Limits, off \in Offsets :
           get_labels_built(f, sb, lim, off)
    \/ \E f \in Filters, sb \in SortKeys, lim \in Limits, off \in Offsets :
           get_labels_literal(f, sb, lim, off)

SpecList == InitList /\ [][NextList]_vars

InitCognition == FilterIdle /\ query = None /\ LabelsIdle /\ CogIdle

NextCognition ==
    \/ get_suggestions
    \/ \E id \in TaskIds : subdivide_task(id)
    \/ GatherContext
    \/ BuildPrompt
    \/ Invoke
    \/ ParseResponse
    \/ Return
    \/ \E id \in TaskIds : create_task(id)
    \/ \E id \in TaskIds : delete_task(id)

SpecCognition == InitCognition /\ [][NextCognition]_vars

-----------------------------------------------------------------------------
(* Properties of the filter compiler and of the statement get_labels builds *)

Rows == [Columns -> {Some(<<"a">>), Some(<<"b">>)}]

AllOf(clauses, row) == \A i \in 1..Len(clauses) : Matches(clauses[i], row)
SomeOf(clauses, row) == \E i \in 1..Len(clauses) : Matches(clauses[i], row)
AllParse(clauses) == \A i \in 1..Len(clauses) : Parses(clauses[i])

\* C1: a node whose AND group and OR group are both non-empty, with every
\* clause a non-empty predicate, compiles to "(" AND-clauses joined by AND
\* ") OR (" OR-clauses joined by OR ")", and a row matches the fragment iff
\* it satisfies all the AND-clauses or at least one OR-clause.
C1_AndGroupOrOrGroup ==
    LET ands == and_clauses(filter)
        ors == or_clauses(filter)
        frag == compile_sql(filter)
    IN  (/\ query # None
         /\ ands # <<>> /\ ors # <<>>
         /\ AllParse(ands) /\ AllParse(ors))
        => /\ frag = <<"(">> \o join(ands, "AND") \o <<")", "OR", "(">>
                     \o join(ors, "OR") \o <<")">>
           /\ \A row \in Rows :
                  Matches(frag, row) <=> (AllOf(ands, row) \/ SomeOf(ors, row))

NoOwnFields(w) == \A c \in Columns : w[c] = None
IsEmptyNode(w) == NoOwnFields(w) /\ Kids(w, "_and") = <<>> /\ Kids(w, "_or") = <<>>
Holds(s, tok) == \E i \in 1..Len(s) : s[i] = tok

\* C2: a node with no field constraints and no children compiles to the
\* empty string, and the statement get_labels builds for it has no WHERE.
C2_EmptyNodeNoWhere ==
    (query # None /\ IsEmptyNode(filter))
    => (compile_sql(filter) = <<>> /\ ~Holds(Unwrap(query), "WHERE"))

\* the same tree with every literal replaced by a quote-free one
RECURSIVE Plain(_)
Plain(w) ==
    [name |-> IF IsSome(w.name) THEN Some(PlainLit) ELSE None,
     description |-> IF IsSome(w.description) THEN Some(PlainLit) ELSE None,
     color |-> IF IsSome(w.color) THEN Some(PlainLit) ELSE None,
     _and |-> IF IsSome(w._and)
              THEN Some([i \in 1..Len(Unwrap(w._and)) |-> Plain(Unwrap(w._and)[i])])
              ELSE None,
     _or |-> IF IsSome(w._or)
             THEN Some([i \in 1..Len(Unwrap(w._or)) |-> Plain(Unwrap(w._or)[i])])
             ELSE None]

\* C3: whatever the literal values, quotes and statement terminators
\* included, the statement get_labels builds has the structure of the
\* statement built for the same filter with quote-free literals.
C3_LiteralsKeepStructure ==
    query # None
    => Shape(Unwrap(query))
       = Shape(GetLabelsQuery(
             GetLabelsInputBuilder(Some(Plain(filter)), None, None, None, None)))

Operators == {"AND", "OR"}
NoEmptyClause(s) ==
    /\ \A i \in 1..Len(s) - 1 : ~(s[i] = "(" /\ s[i + 1] = ")")
    /\ \A i \in 1..Len(s) :
           s[i] \in Operators
           => /\ 1 < i /\ i < Len(s)
              /\ s[i - 1] \notin Operators \cup {"("}
              /\ s[i + 1] \notin Operators \cup {")"}

OnlyEmptyChildren(w) ==
    /\ NoOwnFields(w)
    /\ \A i \in 1..Len(Kids(w, "_and")) : compile_sql(Kids(w, "_and")[i]) = <<>>
    /\ \A i \in 1..Len(Kids(w, "_or")) : compile_sql(Kids(w, "_or")[i]) = <<>>

\* C10: a child that compiles to the empty fragment is skipped: the fragment
\* never holds an empty group "()" nor an AND/OR with a missing operand, and
\* a node whose only content is empty children compiles to the empty string.
C10_EmptyChildrenSkipped ==
    LET frag == compile_sql(filter)
    IN  /\ NoEmptyClause(Shape(frag))
        /\ OnlyEmptyChildren(filter) => frag = <<>>

-----------------------------------------------------------------------------
(* Properties of the label operations *)

\* C4: update_label keeps every column whose input is absent, overwrites
\* every column whose input is present, never changes the id nor any other
\* row, and returns the row as it is after the update.
C4_UpdateCoalesces ==
    [][(ret'.op = "update_label" /\ ret'.id \in DOMAIN labels)
       => LET id == ret'.id
              input == Unwrap(ret'.input)
              old == labels[id]
          IN  /\ DOMAIN labels' = DOMAIN labels
              /\ \A j \in DOMAIN labels \ {id} : labels'[j] = labels[j]
              /\ labels'[id].id = old.id
              /\ \A c \in Columns :
                     labels'[id][c] = IF input[c] = None THEN old[c] ELSE input[c]
              /\ ret'.res = Ok(labels'[id])]_vars

Deleted(id) == id < next_id /\ id \notin DOMAIN labels

\* an update with every field absent succeeded on a row that has a
\* description, after another label was deleted
C4_Witness ==
    /\ ret.op = "update_label"
    /\ ret.res.ok
    /\ \A c \in Columns : Unwrap(ret.input)[c] = None
    /\ ret.res.val.description # None
    /\ \E id \in LabelIds : Deleted(id)

\* C5: once delete_label(id) has succeeded, get_label(id), update_label(id, ..)
\* and delete_label(id) fail and change nothing; a delete_label that
\* succeeds returns the row as last stored and removes it.
C5_DeletedStaysGone ==
    [][/\ (ret'.op \in {"get_label", "update_label", "delete_label"}
           /\ Deleted(ret'.id))
          => (ret'.res = Err("RowNotFound") /\ labels' = labels)
       /\ (ret'.op = "delete_label" /\ ret'.id \in DOMAIN labels)
          => (ret'.res = Ok(labels[ret'.id]) /\ ret'.id \notin DOMAIN labels')
      ]_vars

\* get_label on an id whose label was deleted has failed
C5_Witness ==
    /\ ret.op = "get_label"
    /\ Deleted(ret.id)
    /\ ~ret.res.ok

HasLimit(s, n) ==
    \E i \in 1..Len(s) - 1 : s[i] = "LIMIT" /\ s[i + 1] = ToString(n)

\* C6: when the caller gives no limit, the statement get_labels runs carries
\* LIMIT 100 and the call returns at most 100 labels.
C6_DefaultLimit ==
    (ret.op = "get_labels" /\ Unwrap(ret.input).given.limit = None)
    => /\ HasLimit(Unwrap(query), DefaultLimit)
       /\ ret.res.ok => Len(ret.res.val) <= DefaultLimit

-----------------------------------------------------------------------------
(* Properties of the cognition operations *)

\* what the response holds once every blank and backtick is taken out
Body(resp) == SelectSeq(resp, LAMBDA c : c \notin {Blank, Backtick})

\* the response holds one document of the schema the operation declared
SchemaValid(o, resp) ==
    /\ Len(Body(resp)) = 1
    /\ LET d == Json(Body(resp)[1])
       IN  IF o = "get_suggestions"
           THEN d.kind = "object" /\ Conforms(d.members[1])
           ELSE d.kind = "array"
                /\ \A i \in 1..Len(d.members) : Conforms(d.members[i])

\* C7: a response that does not parse as the declared schema makes
\* get_suggestions and subdivide_task return an error, and no step of
\* either operation changes the persisted tasks.
C7_FailClosedNoWrite ==
    /\ []((pc \in {"Accept", "Reject"} /\ invoked = 1
           /\ ~SchemaValid(op, Unwrap(response)))
          => (pc = "Reject" /\ ~result.ok))
    /\ [][pc' # pc => tasks' = tasks]_vars

\* get_suggestions has failed on the text "not json"
C7_Witness ==
    /\ pc = "Reject"
    /\ op = "get_suggestions"
    /\ response = Some(<<"not json">>)
    /\ ~result.ok

\* blanks, then backticks, then blanks
PadShape(p) ==
    \E a, b \in 0..Len(p) :
        /\ a <= b
        /\ \A i \in 1..Len(p) :
               p[i] = IF i <= a \/ i > b THEN Blank ELSE Backtick

PipelineOrder ==
    {<<"idle", "GatherContext">>, <<"GatherContext", "BuildPrompt">>,
     <<"GatherContext", "Reject">>, <<"BuildPrompt", "Invoke">>,
     <<"Invoke", "ParseResponse">>, <<"ParseResponse", "Accept">>,
     <<"ParseResponse", "Reject">>, <<"Accept", "idle">>, <<"Reject", "idle">>}

\* C9: a subdivide_task request goes GatherContext, BuildPrompt, Invoke,
\* ParseResponse, then Accept or Reject; the completion service is invoked
\* at most once, in Invoke, and only with the parent task fetched; when no
\* task has input.task_id the request is rejected with NotFound and the
\* service is not invoked.
C9_PipelineOrder ==
    /\ [][pc' # pc => <<pc, pc'>> \in PipelineOrder]_vars
    /\ [][invoked' # invoked => (pc = "Invoke" \/ pc' = "idle")]_vars
    /\ [](invoked <= 1)
    /\ []((op = "subdivide_task"
           /\ (invoked > 0 \/ pc \in {"BuildPrompt", "Invoke", "ParseResponse", "Accept"}))
          => IsSome(task))
    /\ [][(op = "subdivide_task" /\ pc = "GatherContext" /\ pc' # pc
           /\ arg \notin tasks)
          => (pc' = "Reject" /\ result' = Err("NotFound") /\ invoked' = 0)]_vars
    /\ []((op = "subdivide_task" /\ pc = "Reject" /\ invoked = 0)
          => result = Err("NotFound"))

\* subdivide_task has accepted a response after one invocation, the parent
\* task in hand
C9_Witness ==
    /\ pc = "Accept"
    /\ op = "subdivide_task"
    /\ invoked = 1
    /\ IsSome(task)
    /\ Len(result.val) = 2

====
